---------------------------- MODULE Spec2Model ----------------------------
(***************************************************************************)
(* Document-classification pipeline of docu_sec (backend/app, backend/ml). *)
(*                                                                         *)
(* The documents table is shared state; pipeline runs (background tasks),  *)
(* the two retry handlers and the startup sweep of lifespan() all write    *)
(* to it.  Time is counted in minutes.  Every action is one awaited        *)
(* database statement (with its commit) or one awaited external call of    *)
(* the Python code, so the interleavings of the model are the ones the     *)
(* asyncio scheduler and the database allow.                               *)
(***************************************************************************)
EXTENDS Integers, Sequences, FiniteSets, TLC

(***************************************************************************)
(* Bounds of the model.                                                    *)
(***************************************************************************)
MaxDocs == 1          \* rows created in the documents table under Spec
MaxBatchDocs == 2     \* rows of the documents table under SpecBatch
MaxCallers == 4       \* pipeline runs inside classify_text_with_gemini under SpecClient
MaxAbandoned == 3     \* executor threads left running by timed-out attempts
MaxRuns == 2          \* pipeline invocations alive at the same time
MaxRetriers == 2      \* single-retry requests open at the same time
MaxTime == 40         \* the clock stops here
TickStep == 10        \* minutes per clock step
BatchCeilingEnv == 1  \* the value the environment gives MAX_RETRY_BATCH_SIZE
MaxChunkResults == 3  \* chunks of one document under SpecAggregate
MaxPages == 6         \* pages of a PDF under SpecExtract
PagesPerPartEnv == 2  \* the value the environment gives PDF_MAX_PAGES_PER_PART
TotalPagesEnv == 5    \* the value the environment gives PDF_MAX_TOTAL_PAGES
ChunksEnv == 2        \* the value the environment gives PDF_MAX_CHUNKS

(***************************************************************************)
(* Program constants.                                                      *)
(***************************************************************************)
ACTIVE_STALE_TIMEOUT_MINUTES == 10
QUEUED_STALE_TIMEOUT_MINUTES == 30
\* int(os.getenv("MAX_RETRY_BATCH_SIZE", "20")): read from the environment
\* (20 when unset); the model runs with a ceiling small enough to bind.
MAX_RETRY_BATCH_SIZE == BatchCeilingEnv
\* vertex_ai_classifier.py
MAX_CONCURRENT_GEMINI_CALLS == 3
MAX_RETRIES == 3

DocIds == 1..MaxBatchDocs
Callers == 1..MaxCallers
Runs == 1..MaxRuns

NullTs == 0 - 1       \* SQL NULL in a timestamp column
NoDoc == 0 - 1        \* a run that holds no document
NoSemaphore == 0 - 1  \* _api_semaphore is None
NoValue == [fn |-> "none"]
NoCall == [pc |-> "idle", attempt |-> 0, calls |-> 0, sleeps |-> <<>>]
NoLoop == [chunks |-> <<>>, i |-> 0, best |-> [label |-> "unclassified", confidence |-> 0]]

\* models.ClassificationStatus
ClassificationStatus ==
    {"queued", "extracting_text", "classifying", "completed", "failed"}
\* models.ClassificationLevel
ClassificationLevel == {"public", "internal", "confidential", "unclassified"}
\* The pipeline only tests the returned label for equality with unclassified
\* (documents.py line 119); one other label stands for the three valid ones.
ResultLabels == {"confidential", "unclassified"}

NonTerminal == {"queued", "extracting_text", "classifying"}
Terminal == {"completed", "failed"}

(***************************************************************************)
(* Values of classification_error.                                         *)
(***************************************************************************)
NoError == "NULL"
MsgNoText == "No text could be extracted from the document"
MsgLowConfidence == "Low confidence - manual review recommended"
MsgShutdown == "Classification interrupted (server shutdown)"
MsgRestart == "Classification interrupted (server restart). Retry to reclassify."
MsgQueuedTooLong == "Document was queued for over 30 minutes without processing. Retry to reclassify."
MsgFileMissing == "File not found on disk - cannot retry"

\* documents.py: _sanitize_classification_error
_sanitize_classification_error(kind) ==
    CASE kind = "Unauthenticated" -> "Authentication error - contact your administrator."
      [] kind = "PermissionDenied" -> "Service account lacks required permissions - contact admin."
      [] kind = "ResourceExhausted" -> "Classification service temporarily busy - retry later."
      [] kind = "InvalidArgument" -> "Document could not be processed by the classification service."
      [] kind = "DeadlineExceeded" -> "Classification timed out - retry later."
      [] kind = "ServiceUnavailable" -> "Classification service temporarily unavailable - retry later."
      [] kind = "InternalServerError" -> "Classification service encountered an internal error - retry later."
      [] kind = "ValueError" -> "str(exc)[:500]"
      [] kind = "RuntimeError" -> "Classification configuration error - contact your administrator."
      [] OTHER -> "Classification failed (type). Contact admin if this persists."

VARIABLES
    documents,   \* the documents table: id -> row
    now,         \* NOW() of the database, in minutes
    proc,        \* the backend process: "up", "stopping" (tasks cancelled) or "down"
    pc,          \* pipeline run -> the await classify_document_pipeline is suspended in
    rdoc,        \* pipeline run -> doc_id argument
    checked,     \* doc_id -> single-retry requests that read `failed` and have their UPDATE pending
    resp,        \* status code of the last response of the single-retry endpoint
    bpc,         \* batch-retry request: position in retry_failed_classifications
    bRest,       \* batch-retry request: rest of failed_docs still to visit
    bQueued,     \* batch-retry request: ids handed to the pipeline (queued_count of them)
    bSkipped,    \* batch-retry request: ids in skipped_missing
    cpc,         \* caller -> position in classify_text_with_gemini
    attempt,     \* caller -> `attempt` of the retry loop
    permits,     \* free permits of _api_semaphore, NoSemaphore while it is None
    abandoned,   \* generate_content calls still running in threads whose wait_for timed out
    arg,         \* the argument of the function under study, with what its environment answers
    call,        \* one call of classify_text_with_gemini: position, attempt, calls made, sleeps
    ret,         \* what the function under study returned or raised; NoValue before that
    loop         \* the chunk loop of classify_extracted_text_async: chunks, index, best so far

dbVars == <<documents, now, proc>>
runVars == <<pc, rdoc>>
retryVars == <<checked, resp>>
batchVars == <<bpc, bRest, bQueued, bSkipped>>
clientVars == <<cpc, attempt, permits, abandoned>>
fnVars == <<arg, call, ret, loop>>
appVars == <<documents, now, proc, pc, rdoc, checked, resp, bpc, bRest, bQueued, bSkipped>>
vars == <<documents, now, proc, pc, rdoc, checked, resp, bpc, bRest, bQueued, bSkipped,
          cpc, attempt, permits, abandoned, arg, call, ret, loop>>

Created == DOMAIN documents

(***************************************************************************)
(* Rows and the statements that write them.                                *)
(***************************************************************************)
\* models.Document as crud.create_document inserts it: status and label take
\* their column defaults, classification_queued_at is left NULL.
NewRow(t) ==
    [status |-> "queued", label |-> "unclassified", error |-> NoError,
     queuedAt |-> NullTs, uploadDate |-> t]

\* A status update that also puts the label back to the column default.
UpdateStatusResetLabel(d, st, err) ==
    documents' = [documents EXCEPT ![d].status = st, ![d].error = err,
                                   ![d].label = "unclassified"]

\* UPDATE documents SET classification_status, classification_error
\* WHERE id = doc_id
_update_status(d, st, err) ==
    documents' = [documents EXCEPT ![d].status = st, ![d].error = err]

\* The WHERE clause of the entry UPDATE (documents.py lines 81-84).
EntryCasMatches(row) == row.status = "queued"

\* The SET clause of the entry UPDATE (lines 85-89).
Entered(row, t) ==
    [row EXCEPT !.status = "extracting_text", !.error = NoError, !.queuedAt = t]

\* The completing write with the error cleared whatever the label.
CompletedWithoutNote(row, l) ==
    [row EXCEPT !.label = l, !.status = "completed", !.error = NoError]

\* Lines 116-126: the loaded row gets label, status and error; commit.
Completed(row, l) ==
    [row EXCEPT !.label = l,
                !.status = "completed",
                !.error = IF l = "unclassified" THEN MsgLowConfidence ELSE NoError]

Idle(r) == pc[r] = "idle"
FreeRuns == {r \in Runs : Idle(r)}
\* background_tasks.add_task(classify_document_pipeline, d, path): the lowest
\* free slot takes the invocation, which then awaits its entry UPDATE.
NextRun == CHOOSE r \in FreeRuns : \A q \in FreeRuns : r <= q
add_task(d) ==
    /\ pc' = [pc EXCEPT ![NextRun] = "cas"]
    /\ rdoc' = [rdoc EXCEPT ![NextRun] = d]

\* The coroutine returns or raises: the task is over.
Finish(r) ==
    /\ pc' = [pc EXCEPT ![r] = "idle"]
    /\ rdoc' = [rdoc EXCEPT ![r] = NoDoc]

Goto(r, where) ==
    /\ pc' = [pc EXCEPT ![r] = where]
    /\ UNCHANGED rdoc

(***************************************************************************)
(* upload_document: the row is created queued and the pipeline handed off. *)
(***************************************************************************)
Upload ==
    /\ proc = "up"
    /\ Cardinality(Created) < MaxDocs
    /\ FreeRuns # {}
    /\ LET d == Cardinality(Created) + 1
       IN /\ documents' = documents @@ (d :> NewRow(now))
          /\ add_task(d)
    /\ UNCHANGED <<now, proc, retryVars, batchVars, clientVars, fnVars>>

\* startPipeline(documentId, filePath), the inbound entry point, called for a
\* row that exists.
StartPipeline(d) ==
    /\ proc = "up"
    /\ d \in Created
    /\ FreeRuns # {}
    /\ add_task(d)
    /\ UNCHANGED <<dbVars, retryVars, batchVars, clientVars, fnVars>>

(***************************************************************************)
(* classify_document_pipeline.  A run is suspended in one of three awaits: *)
(* "cas" (the entry UPDATE), "extract" (extract_document_text_async) and   *)
(* "classify" (classify_extracted_text_async); each action runs from the   *)
(* completion of that await to the next one, with the database statement   *)
(* issued on the way.                                                      *)
(***************************************************************************)
\* lines 140-150: the sanitized message is written through a new session; a
\* failure of that write is logged and swallowed.
ExceptHandler(d, kind) ==
    \/ _update_status(d, "failed", _sanitize_classification_error(kind))
    \/ UNCHANGED documents

\* lines 79-94: UPDATE ... WHERE id = doc_id AND status = queued; commit;
\* return when rowcount = 0.
PipelineCAS(r) ==
    /\ pc[r] = "cas"
    /\ proc = "up"
    /\ LET d == rdoc[r]
       IN IF EntryCasMatches(documents[d])
          THEN /\ documents' = [documents EXCEPT ![d] = Entered(@, now)]
               /\ Goto(r, "extract")
          ELSE /\ UNCHANGED documents
               /\ Finish(r)
    /\ UNCHANGED <<now, proc, retryVars, batchVars, clientVars, fnVars>>

\* lines 79-91 raise (the session's first statement fails, e.g. on a dead
\* pooled connection): control passes to `except Exception`.
PipelineCASRaises(r) ==
    /\ pc[r] = "cas"
    /\ proc = "up"
    /\ ExceptHandler(rdoc[r], "DBAPIError")
    /\ Finish(r)
    /\ UNCHANGED <<now, proc, retryVars, batchVars, clientVars, fnVars>>

\* lines 97-104: nothing was extracted.
ExtractEmpty(r) ==
    /\ pc[r] = "extract"
    /\ proc = "up"
    /\ _update_status(rdoc[r], "failed", MsgNoText)
    /\ Finish(r)
    /\ UNCHANGED <<now, proc, retryVars, batchVars, clientVars, fnVars>>

\* line 97 raises ValueError (a guardrail of extract_document_text_async).
ExtractRaises(r) ==
    /\ pc[r] = "extract"
    /\ proc = "up"
    /\ ExceptHandler(rdoc[r], "ValueError")
    /\ Finish(r)
    /\ UNCHANGED <<now, proc, retryVars, batchVars, clientVars, fnVars>>

\* lines 97-108: text or chunks came back; status classifying is written and
\* the classifier awaited.
ExtractText(r) ==
    /\ pc[r] = "extract"
    /\ proc = "up"
    /\ _update_status(rdoc[r], "classifying", NoError)
    /\ Goto(r, "classify")
    /\ UNCHANGED <<now, proc, retryVars, batchVars, clientVars, fnVars>>

\* lines 108-126: classify_extracted_text_async returned label l.
ClassifyReturns(r, l) ==
    /\ pc[r] = "classify"
    /\ proc = "up"
    /\ documents' = [documents EXCEPT ![rdoc[r]] = Completed(@, l)]
    /\ Finish(r)
    /\ UNCHANGED <<now, proc, retryVars, batchVars, clientVars, fnVars>>

\* line 108 raises (RuntimeError of classify_text_with_gemini).
ClassifyRaises(r) ==
    /\ pc[r] = "classify"
    /\ proc = "up"
    /\ ExceptHandler(rdoc[r], "RuntimeError")
    /\ Finish(r)
    /\ UNCHANGED <<now, proc, retryVars, batchVars, clientVars, fnVars>>

\* A statement of lines 99-126 that writes to the database raises (the
\* failed write of 99-103, the classifying write of 107, the SELECT or the
\* commit of 112-126): control passes to `except Exception`.
StageWriteRaises(r) ==
    /\ pc[r] \in {"extract", "classify"}
    /\ proc = "up"
    /\ ExceptHandler(rdoc[r], "DBAPIError")
    /\ Finish(r)
    /\ UNCHANGED <<now, proc, retryVars, batchVars, clientVars, fnVars>>

\* lines 128-138: after CancelledError, failed is written through a new
\* session (a failure is swallowed) and the cancellation re-raised.
CancelWrite(r) ==
    /\ pc[r] = "cancelled"
    /\ \/ _update_status(rdoc[r], "failed", MsgShutdown)
       \/ UNCHANGED documents
    /\ Finish(r)
    /\ UNCHANGED <<now, proc, retryVars, batchVars, clientVars, fnVars>>

(***************************************************************************)
(* retry_document_classification (single retry)                            *)
(***************************************************************************)
OpenRetries == {d \in DocIds : checked[d] > 0}
RECURSIVE Sum(_, _)
Sum(f, S) == IF S = {} THEN 0
             ELSE LET x == CHOOSE y \in S : TRUE IN f[x] + Sum(f, S \ {x})

\* A status check that turns away completed documents only.
RetryAllowedUnlessCompleted(row) == row.status # "completed"

\* line 647: only a row read as failed goes on to the UPDATE.
RetryAllowed(row) == row.status = "failed"

\* lines 637-648: the row is loaded; anything but failed is answered 400.
RetryRequest(d) ==
    /\ proc = "up"
    /\ d \in Created
    /\ IF RetryAllowed(documents[d])
       THEN /\ Sum(checked, DocIds) < MaxRetriers
            /\ checked' = [checked EXCEPT ![d] = @ + 1]
            /\ UNCHANGED resp
       ELSE /\ resp' = "400"
            /\ UNCHANGED checked
    /\ UNCHANGED <<dbVars, runVars, batchVars, clientVars, fnVars>>

\* An UPDATE by id alone, with no condition on the status.
RetryCasUnconditional(row) == TRUE

\* The WHERE clause of the retry UPDATE (lines 652-655 and 604-607).
RetryCasMatches(row) == row.status = "failed"

\* The SET clause of the retry UPDATE (lines 656-659 and 608-611).
Requeued(row) == [row EXCEPT !.status = "queued", !.error = NoError]

\* lines 650-667: CAS failed -> queued; 409 on rowcount = 0, else hand-off.
RetryCAS(d) ==
    /\ proc = "up"
    /\ checked[d] > 0
    /\ checked' = [checked EXCEPT ![d] = @ - 1]
    /\ IF RetryCasMatches(documents[d])
       THEN /\ FreeRuns # {}
            /\ documents' = [documents EXCEPT ![d] = Requeued(@)]
            /\ add_task(d)
            /\ resp' = "200"
       ELSE /\ UNCHANGED <<documents, runVars>>
            /\ resp' = "409"
    /\ UNCHANGED <<now, proc, batchVars, clientVars, fnVars>>

(***************************************************************************)
(* retry_failed_classifications (batch retry)                              *)
(***************************************************************************)
\* All the orders in which SELECT (no ORDER BY) may return the rows of S.
RECURSIVE Orders(_)
Orders(S) ==
    IF S = {} THEN {<<>>}
    ELSE UNION {{<<d>> \o rest : rest \in Orders(S \ {d})} : d \in S}

\* lines 581-592: failed_docs is selected.
BatchSelect ==
    /\ proc = "up"
    /\ bpc = "idle"
    /\ LET failed == {d \in Created : documents[d].status = "failed"}
       IN /\ failed # {}
          /\ \E order \in Orders(failed) : bRest' = order
    /\ bpc' = "loop"
    /\ bQueued' = {}
    /\ bSkipped' = {}
    /\ UNCHANGED <<dbVars, runVars, retryVars, clientVars, fnVars>>

\* A loop over all the selected rows, with no ceiling.
BatchContinuesNoCeiling == bRest # <<>>

\* line 594: the loop goes on while queued_count is below the ceiling.
BatchContinues == bRest # <<>> /\ Cardinality(bQueued) < MAX_RETRY_BATCH_SIZE

\* lines 597-600: os.path.exists(doc.file_path) is false; the ORM flushes the
\* new classification_error by primary key.
BatchSkipMissing ==
    /\ proc = "up"
    /\ bpc = "loop"
    /\ BatchContinues
    /\ LET d == Head(bRest)
       IN /\ documents' = [documents EXCEPT ![d].error = MsgFileMissing]
          /\ bSkipped' = bSkipped \cup {d}
    /\ bRest' = Tail(bRest)
    /\ UNCHANGED <<now, proc, runVars, retryVars, bpc, bQueued, clientVars, fnVars>>

\* lines 602-615: CAS failed -> queued and hand-off on rowcount > 0.
BatchCAS ==
    /\ proc = "up"
    /\ bpc = "loop"
    /\ BatchContinues
    /\ LET d == Head(bRest)
       IN IF RetryCasMatches(documents[d])
          THEN /\ FreeRuns # {}
               /\ documents' = [documents EXCEPT ![d] = Requeued(@)]
               /\ add_task(d)
               /\ bQueued' = bQueued \cup {d}
          ELSE UNCHANGED <<documents, runVars, bQueued>>
    /\ bRest' = Tail(bRest)
    /\ UNCHANGED <<now, proc, retryVars, bpc, bSkipped, clientVars, fnVars>>

\* lines 617-626: commit and response.
BatchReturn ==
    /\ bpc = "loop"
    /\ ~BatchContinues
    /\ bpc' = "idle"
    /\ bRest' = <<>>
    /\ bQueued' = {}
    /\ bSkipped' = {}
    /\ UNCHANGED <<dbVars, runVars, retryVars, clientVars, fnVars>>

(***************************************************************************)
(* lifespan: the stale-document recovery that runs at process startup      *)
(***************************************************************************)
\* The active stages swept with the window of the queued stage.
StaleActiveQueuedWindow(row, t) ==
    /\ row.status \in {"extracting_text", "classifying"}
    /\ row.queuedAt # NullTs
    /\ row.queuedAt < t - QUEUED_STALE_TIMEOUT_MINUTES

\* main.py lines 145-146
StaleActive(row, t) ==
    /\ row.status \in {"extracting_text", "classifying"}
    /\ row.queuedAt # NullTs
    /\ row.queuedAt < t - ACTIVE_STALE_TIMEOUT_MINUTES

\* main.py lines 156-157
StaleQueued(row, t) ==
    /\ row.status = "queued"
    /\ row.queuedAt # NullTs
    /\ row.queuedAt < t - QUEUED_STALE_TIMEOUT_MINUTES

\* main.py lines 167-169
StaleNullTimestamp(row, t) ==
    /\ row.status \in {"extracting_text", "classifying", "queued"}
    /\ row.queuedAt = NullTs
    /\ row.uploadDate < t - ACTIVE_STALE_TIMEOUT_MINUTES

Failed(row, msg) == [row EXCEPT !.status = "failed", !.error = msg]

\* The three UPDATE statements of lines 140-172, in order, on one row.
SweepRow(row, t) ==
    LET r1 == IF StaleActive(row, t) THEN Failed(row, MsgRestart) ELSE row
        r2 == IF StaleQueued(r1, t) THEN Failed(r1, MsgQueuedTooLong) ELSE r1
    IN IF StaleNullTimestamp(r2, t) THEN Failed(r2, MsgRestart) ELSE r2

\* The process starts: lifespan runs the recovery before any request is served.
Startup ==
    /\ proc = "down"
    /\ proc' = "up"
    /\ documents' = [d \in Created |-> SweepRow(documents[d], now)]
    /\ UNCHANGED <<now, runVars, retryVars, batchVars, clientVars, fnVars>>

(***************************************************************************)
(* The process and the clock                                               *)
(***************************************************************************)
\* Requests that were open are gone with the process.
RequestsGone ==
    /\ checked' = [d \in DocIds |-> 0]
    /\ bpc' = "idle"
    /\ bRest' = <<>>
    /\ bQueued' = {}
    /\ bSkipped' = {}

\* The process is killed: every task and request in it is gone.
Crash ==
    /\ proc \in {"up", "stopping"}
    /\ proc' = "down"
    /\ pc' = [r \in Runs |-> IF pc[r] = "off" THEN "off" ELSE "idle"]
    /\ rdoc' = [r \in Runs |-> NoDoc]
    /\ RequestsGone
    /\ UNCHANGED <<documents, now, resp, clientVars, fnVars>>

\* Shutdown cancels the tasks: CancelledError is raised in every pipeline run
\* at the await it is suspended in.
Shutdown ==
    /\ proc = "up"
    /\ proc' = "stopping"
    /\ pc' = [r \in Runs |-> IF pc[r] \in {"idle", "off"} THEN pc[r] ELSE "cancelled"]
    /\ RequestsGone
    /\ UNCHANGED <<documents, now, rdoc, resp, clientVars, fnVars>>

\* Every cancelled task has ended: the process exits.
Exit ==
    /\ proc = "stopping"
    /\ \A r \in Runs : pc[r] \in {"idle", "off"}
    /\ proc' = "down"
    /\ UNCHANGED <<documents, now, runVars, retryVars, batchVars, clientVars, fnVars>>

Tick ==
    /\ now + TickStep <= MaxTime
    /\ now' = now + TickStep
    /\ UNCHANGED <<documents, proc, runVars, retryVars, batchVars, clientVars, fnVars>>

(***************************************************************************)
(* The specification                                                       *)
(***************************************************************************)
Init ==
    /\ documents = <<>>
    /\ now = 0
    /\ proc = "down"
    /\ pc = [r \in Runs |-> "idle"]
    /\ rdoc = [r \in Runs |-> NoDoc]
    /\ checked = [d \in DocIds |-> 0]
    /\ resp = "none"
    /\ bpc = "idle"
    /\ bRest = <<>>
    /\ bQueued = {}
    /\ bSkipped = {}
    /\ cpc = [c \in Callers |-> "idle"]
    /\ attempt = [c \in Callers |-> 0]
    /\ permits = NoSemaphore
    /\ abandoned = 0
    /\ arg = NoValue
    /\ call = NoCall
    /\ loop = NoLoop
    /\ ret = NoValue

PipelineStep(r) ==
    \/ PipelineCAS(r)
    \/ PipelineCASRaises(r)
    \/ ExtractEmpty(r)
    \/ ExtractRaises(r)
    \/ ExtractText(r)
    \/ \E l \in ResultLabels : ClassifyReturns(r, l)
    \/ ClassifyRaises(r)
    \/ StageWriteRaises(r)
    \/ CancelWrite(r)

SingleRetryStep == \E d \in DocIds : RetryRequest(d) \/ RetryCAS(d)

BatchRetryStep == BatchSelect \/ BatchSkipMissing \/ BatchCAS \/ BatchReturn

ProcessStep == Startup \/ Crash \/ Shutdown \/ Exit

Next ==
    \/ Upload
    \/ \E d \in DocIds : StartPipeline(d)
    \/ \E r \in Runs : PipelineStep(r)
    \/ SingleRetryStep
    \/ BatchRetryStep
    \/ ProcessStep
    \/ Tick

Spec == Init /\ [][Next]_vars

(***************************************************************************)
(* SpecBatch: the two retry endpoints and the runs they hand off, over a   *)
(* table of MaxBatchDocs rows that earlier runs left failed (nothing could *)
(* be extracted) or completed.                                             *)
(***************************************************************************)
FailedRow == Failed(Entered(NewRow(0), 0), MsgNoText)
CompletedRow == Completed(Entered(NewRow(0), 0), "confidential")

InitBatch ==
    /\ documents \in [DocIds -> {FailedRow, CompletedRow}]
    /\ now = 0
    /\ proc = "up"
    /\ pc = [r \in Runs |-> "idle"]
    /\ rdoc = [r \in Runs |-> NoDoc]
    /\ checked = [d \in DocIds |-> 0]
    /\ resp = "none"
    /\ bpc = "idle"
    /\ bRest = <<>>
    /\ bQueued = {}
    /\ bSkipped = {}
    /\ cpc = [c \in Callers |-> "idle"]
    /\ attempt = [c \in Callers |-> 0]
    /\ permits = NoSemaphore
    /\ abandoned = 0
    /\ arg = NoValue
    /\ call = NoCall
    /\ loop = NoLoop
    /\ ret = NoValue

NextBatch ==
    \/ \E r \in Runs : PipelineStep(r)
    \/ SingleRetryStep
    \/ BatchRetryStep
    \/ Shutdown

SpecBatch == InitBatch /\ [][NextBatch]_vars

(***************************************************************************)
(* classify_text_with_gemini, called by the pipeline runs that are at      *)
(* line 108 of classify_document_pipeline.  cpc is "idle" outside the      *)
(* function, "acquire" while waiting in `async with _api_semaphore`,       *)
(* "call" while awaiting wait_for(to_thread(generate_content)), "sleep"    *)
(* while in asyncio.sleep.                                                 *)
(***************************************************************************)
Calling == {c \in Callers : cpc[c] = "call"}

\* Outbound generate_content calls that have not returned yet: the awaited
\* ones and the ones whose awaiting attempt timed out.
InFlight == Cardinality(Calling) + abandoned

\* lines 185-192: the semaphore is created on first use; a blank text
\* returns before it.
ClientEnter(c) ==
    /\ cpc[c] = "idle"
    /\ permits' = IF permits = NoSemaphore THEN MAX_CONCURRENT_GEMINI_CALLS ELSE permits
    /\ \/ cpc' = [cpc EXCEPT ![c] = "acquire"]
       \/ UNCHANGED cpc
    /\ UNCHANGED <<attempt, abandoned, appVars, fnVars>>

\* line 192 acquires a permit; lines 204-213 start attempt 1.
ClientAcquire(c) ==
    /\ cpc[c] = "acquire"
    /\ permits > 0
    /\ permits' = permits - 1
    /\ cpc' = [cpc EXCEPT ![c] = "call"]
    /\ attempt' = [attempt EXCEPT ![c] = 1]
    /\ UNCHANGED <<abandoned, appVars, fnVars>>

\* An exit from the function that keeps the permit.
ClientLeaveKeepsPermit(c) ==
    /\ cpc' = [cpc EXCEPT ![c] = "idle"]
    /\ attempt' = [attempt EXCEPT ![c] = 0]
    /\ UNCHANGED permits

\* The function returns or raises: `async with` releases the permit.
ClientLeave(c) ==
    /\ cpc' = [cpc EXCEPT ![c] = "idle"]
    /\ attempt' = [attempt EXCEPT ![c] = 0]
    /\ permits' = permits + 1

\* The for loop of line 204 goes to its next attempt, or is exhausted and
\* line 243 raises.
ClientNextAttempt(c) ==
    IF attempt[c] < MAX_RETRIES
    THEN /\ attempt' = [attempt EXCEPT ![c] = @ + 1]
         /\ cpc' = [cpc EXCEPT ![c] = "call"]
         /\ UNCHANGED permits
    ELSE ClientLeave(c)

\* lines 215-219: a response with text is parsed and returned.
CallReturns(c) ==
    /\ cpc[c] = "call"
    /\ ClientLeave(c)
    /\ UNCHANGED <<abandoned, appVars, fnVars>>

\* lines 215-217: an empty response; `continue`.
CallEmpty(c) ==
    /\ cpc[c] = "call"
    /\ ClientNextAttempt(c)
    /\ UNCHANGED <<abandoned, appVars, fnVars>>

\* The thread of a timed-out attempt: wait_for cancels the awaiting future,
\* the executor thread goes on running generate_content.
ThreadsAfterTimeout(n) == n + 1

\* lines 221-223: wait_for raises TimeoutError; the loop goes on at once.
CallTimeout(c) ==
    /\ cpc[c] = "call"
    /\ abandoned < MaxAbandoned
    /\ abandoned' = ThreadsAfterTimeout(abandoned)
    /\ ClientNextAttempt(c)
    /\ UNCHANGED <<appVars, fnVars>>

\* lines 224-227 and 235-240: ResourceExhausted or another retryable error;
\* the call is over and the caller sleeps.
CallRetryable(c) ==
    /\ cpc[c] = "call"
    /\ cpc' = [cpc EXCEPT ![c] = "sleep"]
    /\ UNCHANGED <<attempt, permits, abandoned, appVars, fnVars>>

\* The sleep of line 227 or 240 is over.
ClientWake(c) ==
    /\ cpc[c] = "sleep"
    /\ ClientNextAttempt(c)
    /\ UNCHANGED <<abandoned, appVars, fnVars>>

\* lines 228-234: Unauthenticated or InvalidArgument; RuntimeError is raised.
CallPermanent(c) ==
    /\ cpc[c] = "call"
    /\ ClientLeave(c)
    /\ UNCHANGED <<abandoned, appVars, fnVars>>

\* CancelledError is raised at the await the caller is suspended in.  No
\* except clause of lines 221-240 catches it; while waiting in line 192 no
\* permit was taken, otherwise `async with` releases it.  The thread of an
\* interrupted to_thread call goes on running generate_content.
ClientCancelled(c) ==
    /\ cpc[c] \in {"acquire", "call", "sleep"}
    /\ IF cpc[c] = "acquire"
       THEN /\ cpc' = [cpc EXCEPT ![c] = "idle"]
            /\ UNCHANGED <<attempt, permits>>
       ELSE ClientLeave(c)
    /\ IF cpc[c] = "call"
       THEN /\ abandoned < MaxAbandoned
            /\ abandoned' = ThreadsAfterTimeout(abandoned)
       ELSE UNCHANGED abandoned
    /\ UNCHANGED <<appVars, fnVars>>

\* An abandoned thread's generate_content call comes to its end.
ThreadEnds ==
    /\ abandoned > 0
    /\ abandoned' = abandoned - 1
    /\ UNCHANGED <<cpc, attempt, permits, appVars, fnVars>>

NextClient ==
    \/ \E c \in Callers :
          \/ ClientEnter(c)
          \/ ClientAcquire(c)
          \/ CallReturns(c)
          \/ CallEmpty(c)
          \/ CallTimeout(c)
          \/ CallRetryable(c)
          \/ ClientWake(c)
          \/ CallPermanent(c)
          \/ ClientCancelled(c)
    \/ ThreadEnds

SpecClient == Init /\ [][NextClient]_vars

(***************************************************************************)
(* SpecCall: one pipeline run suspended at line 108 of                     *)
(* classify_document_pipeline and, in detail, the call of                  *)
(* classify_text_with_gemini it awaits.  arg.answers[i] is what the        *)
(* service does with the i-th generate_content call; confidences are in    *)
(* percent.                                                                *)
(***************************************************************************)
DEFAULT_CONFIDENCE_THRESHOLD == 65
_CONFIDENCE_THRESHOLD == DEFAULT_CONFIDENCE_THRESHOLD
VALID_LABELS == {"public", "internal", "confidential"}

\* A response with text (a label the prompt asks for, or anything else), an
\* empty response, a timeout of wait_for, or an exception of google.api_core.
ServiceAnswers ==
    [kind : {"text"}, label : {"confidential", "bogus"}, confidence : {50, 90}]
    \cup [kind : {"empty", "Timeout", "ResourceExhausted", "Unauthenticated",
                  "InvalidArgument", "ServiceUnavailable"}]

\* parse_gemini_response, lines 165-175: a label outside VALID_LABELS gives
\* (unclassified, 0.0), a confidence below the threshold (unclassified, c).
parse_gemini_response(a) ==
    IF a.label \notin VALID_LABELS
    THEN [label |-> "unclassified", confidence |-> 0]
    ELSE IF a.confidence < _CONFIDENCE_THRESHOLD
         THEN [label |-> "unclassified", confidence |-> a.confidence]
         ELSE [label |-> a.label, confidence |-> a.confidence]

\* A permanent condition: only Unauthenticated stops the loop.
PermanentAuthOnly(a) == a.kind = "Unauthenticated"

\* lines 228-234: the except clauses that raise instead of going on.
Permanent(a) == a.kind \in {"Unauthenticated", "InvalidArgument"}

\* A backoff that does not grow.
BackoffFlat(n) == 2

\* line 227: asyncio.sleep(2 ** attempt)
Backoff(n) == 2 ^ n

\* The exception classify_text_with_gemini raises (lines 230, 234 and 243).
RaisedBy(cause) ==
    [fn |-> "raise", exc |-> "RuntimeError",
     msg |-> CASE cause = "Unauthenticated" -> "Vertex AI authentication failed"
               [] cause = "InvalidArgument" -> "Gemini model does not support JSON mode"
               [] OTHER -> "Gemini classification failed after MAX_RETRIES attempts"]

ThisAnswer == arg.answers[call.attempt]

\* A loop that gives up with (unclassified, 0.0) instead of raising when the
\* attempts are used up.
AfterAttemptGivesUp(c) ==
    IF c.attempt < MAX_RETRIES
    THEN /\ call' = [c EXCEPT !.pc = "call", !.attempt = @ + 1]
         /\ UNCHANGED ret
    ELSE /\ call' = [c EXCEPT !.pc = "done"]
         /\ ret' = [fn |-> "return", value |-> [label |-> "unclassified", confidence |-> 0]]

\* The end of one iteration of the for loop of line 204: the next attempt,
\* or lines 242-243 when the attempts are used up.
AfterAttempt(c) ==
    IF c.attempt < MAX_RETRIES
    THEN /\ call' = [c EXCEPT !.pc = "call", !.attempt = @ + 1]
         /\ UNCHANGED ret
    ELSE /\ call' = [c EXCEPT !.pc = "done"]
         /\ ret' = RaisedBy("exhausted")

\* lines 192-204: the permit is taken and the loop entered.
GeminiEnter ==
    /\ arg # NoValue /\ arg.fn = "classify_text_with_gemini"
    /\ call.pc = "idle" /\ ret = NoValue
    /\ call' = [call EXCEPT !.pc = "call", !.attempt = 1]
    /\ UNCHANGED <<loop, arg, ret, appVars, clientVars>>

\* lines 206-219: a response with text is parsed and returned.
GeminiReturns ==
    /\ call.pc = "call"
    /\ ThisAnswer.kind = "text"
    /\ call' = [call EXCEPT !.pc = "done", !.calls = @ + 1]
    /\ ret' = [fn |-> "return", value |-> parse_gemini_response(ThisAnswer)]
    /\ UNCHANGED <<loop, arg, appVars, clientVars>>

\* lines 215-217 and 221-223: an empty response or a timeout; the loop goes
\* on at once.
GeminiNoAnswer ==
    /\ call.pc = "call"
    /\ ThisAnswer.kind \in {"empty", "Timeout"}
    /\ AfterAttempt([call EXCEPT !.calls = @ + 1])
    /\ UNCHANGED <<loop, arg, appVars, clientVars>>

\* lines 228-234: RuntimeError is raised out of the loop.
GeminiPermanent ==
    /\ call.pc = "call"
    /\ Permanent(ThisAnswer)
    /\ call' = [call EXCEPT !.pc = "done", !.calls = @ + 1]
    /\ ret' = RaisedBy(ThisAnswer.kind)
    /\ UNCHANGED <<loop, arg, appVars, clientVars>>

\* lines 224-227: ResourceExhausted; sleep 2 ** attempt.
GeminiQuota ==
    /\ call.pc = "call"
    /\ ThisAnswer.kind = "ResourceExhausted"
    /\ ~Permanent(ThisAnswer)
    /\ call' = [call EXCEPT !.pc = "sleep", !.calls = @ + 1,
                            !.sleeps = Append(@, Backoff(call.attempt))]
    /\ UNCHANGED <<loop, arg, ret, appVars, clientVars>>

\* lines 235-240: another GoogleAPIError; sleep 1.
GeminiRetryable ==
    /\ call.pc = "call"
    /\ ThisAnswer.kind \notin {"text", "empty", "Timeout", "ResourceExhausted"}
    /\ ~Permanent(ThisAnswer)
    /\ call' = [call EXCEPT !.pc = "sleep", !.calls = @ + 1,
                            !.sleeps = Append(@, 1)]
    /\ UNCHANGED <<loop, arg, ret, appVars, clientVars>>

\* The sleep is over.
GeminiWake ==
    /\ call.pc = "sleep"
    /\ AfterAttempt(call)
    /\ UNCHANGED <<loop, arg, appVars, clientVars>>

\* line 108 returns the label to the pipeline run.
CallCompletes(r) ==
    /\ call.pc = "done" /\ ret.fn = "return"
    /\ ClassifyReturns(r, ret.value.label)

\* line 108 raises in the pipeline run.
CallFails(r) ==
    /\ call.pc = "done" /\ ret.fn = "raise" /\ ret.exc = "RuntimeError"
    /\ ClassifyRaises(r)

\* lines 110-126 raise while the returned label is recorded.
ResultWriteRaises(r) ==
    /\ call.pc = "done" /\ ret.fn = "return"
    /\ StageWriteRaises(r)

\* The row of a run that is classifying.
ClassifyingRow == [Entered(NewRow(0), 0) EXCEPT !.status = "classifying"]

InitCall ==
    /\ documents = <<ClassifyingRow>>
    /\ now = 0
    /\ proc = "up"
    /\ pc = [r \in Runs |-> IF r = 1 THEN "classify" ELSE "idle"]
    /\ rdoc = [r \in Runs |-> IF r = 1 THEN 1 ELSE NoDoc]
    /\ checked = [d \in DocIds |-> 0]
    /\ resp = "none"
    /\ bpc = "idle"
    /\ bRest = <<>>
    /\ bQueued = {}
    /\ bSkipped = {}
    /\ cpc = [c \in Callers |-> "idle"]
    /\ attempt = [c \in Callers |-> 0]
    /\ permits = NoSemaphore
    /\ abandoned = 0
    /\ arg \in [fn : {"classify_text_with_gemini"},
                answers : [1..MAX_RETRIES -> ServiceAnswers]]
    /\ call = NoCall
    /\ loop = NoLoop
    /\ ret = NoValue

NextCall ==
    \/ GeminiEnter
    \/ GeminiReturns
    \/ GeminiNoAnswer
    \/ GeminiPermanent
    \/ GeminiQuota
    \/ GeminiRetryable
    \/ GeminiWake
    \/ \E r \in Runs : CallCompletes(r) \/ CallFails(r) \/ ResultWriteRaises(r)

SpecCall == InitCall /\ [][NextCall]_vars

(***************************************************************************)
(* SpecAggregate: the chunk loop of classify_extracted_text_async (lines   *)
(* 328-349) as a function of the results classify_text_with_gemini gave    *)
(* for the chunks, in chunk order.                                         *)
(***************************************************************************)
\* What classify_text_with_gemini can return: (unclassified, 0.0) for an
\* unusable answer, (unclassified, c) for c below the threshold, (label, c)
\* otherwise.
ChunkResults ==
    [label : VALID_LABELS, confidence : {70, 90}]
    \cup [label : {"unclassified"}, confidence : {0, 50}]

\* No process, no document, no request: the functions are studied alone.
NothingRuns ==
    /\ documents = <<>>
    /\ now = 0
    /\ proc = "down"
    /\ pc = [r \in Runs |-> "idle"]
    /\ rdoc = [r \in Runs |-> NoDoc]
    /\ checked = [d \in DocIds |-> 0]
    /\ resp = "none"
    /\ bpc = "idle"
    /\ bRest = <<>>
    /\ bQueued = {}
    /\ bSkipped = {}
    /\ cpc = [c \in Callers |-> "idle"]
    /\ attempt = [c \in Callers |-> 0]
    /\ permits = NoSemaphore
    /\ abandoned = 0
    /\ call = NoCall
    /\ loop = NoLoop

\* A table that ranks public above internal.
RankPublicAboveInternal(l) ==
    CASE l = "confidential" -> 3
      [] l = "public" -> 2
      [] l = "internal" -> 1
      [] OTHER -> 0

\* classifier.py line 97, read with SECURITY_RANK.get(label, 0).
SECURITY_RANK(l) ==
    CASE l = "confidential" -> 3
      [] l = "internal" -> 2
      [] l = "public" -> 1
      [] OTHER -> 0

\* lines 343-345: a chunk replaces the best so far only when its rank is
\* strictly higher.
RECURSIVE AggregateFrom(_, _, _)
AggregateFrom(results, i, best) ==
    IF i > Len(results) THEN best
    ELSE AggregateFrom(results, i + 1,
            IF SECURITY_RANK(results[i].label) > SECURITY_RANK(best.label)
            THEN results[i] ELSE best)

\* lines 328-348: best_label, best_confidence start as (unclassified, 0.0).
AggregateChunks(results) ==
    AggregateFrom(results, 1, [label |-> "unclassified", confidence |-> 0])

InitAggregate ==
    /\ NothingRuns
    /\ \E n \in 1..MaxChunkResults :
          arg \in [fn : {"aggregate"}, results : [1..n -> ChunkResults]]
    /\ ret = NoValue

Aggregate ==
    /\ arg.fn = "aggregate"
    /\ ret = NoValue
    /\ ret' = [fn |-> "return", value |-> AggregateChunks(arg.results)]
    /\ UNCHANGED <<loop, arg, call, appVars, clientVars>>

SpecAggregate == InitAggregate /\ [][Aggregate]_vars

(***************************************************************************)
(* SpecExtract: one pipeline run suspended at line 97 of                   *)
(* classify_document_pipeline and the extract_document_text_async call it  *)
(* awaits, as a function of the file.  A PDF is the sequence of its pages: *)
(* "text" (get_text gives text), "blank" (nothing but white space) or      *)
(* "error" (get_text raises).  A text is the sequence of the page numbers  *)
(* whose text it holds; the text of a DOCX or TXT file is <<1>> or <<>>.   *)
(***************************************************************************)
\* int(os.getenv(...)) of lines 94-96, with the values of the bounds.
MAX_PAGES_PER_PART == PagesPerPartEnv
MAX_TOTAL_PAGES == TotalPagesEnv
MAX_CHUNKS == ChunksEnv

PageKinds == {"text", "blank", "error"}

Files ==
    UNION {[ext : {"pdf"}, pages : [1..n -> PageKinds]] : n \in 0..MaxPages}
    \cup [ext : {"docx"}, oversize : BOOLEAN, pages : {<<>>, <<"text">>}]
    \cup [ext : {"txt"}, pages : {<<>>, <<"text">>}]
    \cup [ext : {"other"}]

\* A chunk count taken from the text pages instead of the pages read.
CountTextPagesOnly(kind, pages_in_chunk) ==
    IF kind = "text" THEN pages_in_chunk + 1 ELSE pages_in_chunk

\* lines 152-159: a page whose get_text raises is skipped before
\* pages_in_chunk += 1; any other page is counted.
PagesInChunkAfter(kind, pages_in_chunk) ==
    IF kind = "error" THEN pages_in_chunk ELSE pages_in_chunk + 1

\* The same loop with no ceiling on the number of chunks.
RECURSIVE ChunkLoopNoCeiling(_, _, _, _, _)
ChunkLoopNoCeiling(pages, p, chunks, chunk_texts, pages_in_chunk) ==
    IF p > Len(pages)
    THEN IF chunk_texts # <<>> THEN Append(chunks, chunk_texts) ELSE chunks
    ELSE LET texts == IF pages[p] = "text" THEN Append(chunk_texts, p) ELSE chunk_texts
             count == PagesInChunkAfter(pages[p], pages_in_chunk)
         IN IF pages[p] # "error" /\ count >= MAX_PAGES_PER_PART
            THEN ChunkLoopNoCeiling(pages, p + 1,
                                    IF texts # <<>> THEN Append(chunks, texts) ELSE chunks,
                                    <<>>, 0)
            ELSE ChunkLoopNoCeiling(pages, p + 1, chunks, texts, count)

\* The for loop of extract_large_pdf_chunks (lines 146-165) from page p on,
\* and the last partial chunk (lines 166-170).
RECURSIVE ChunkLoop(_, _, _, _, _)
ChunkLoop(pages, p, chunks, chunk_texts, pages_in_chunk) ==
    IF p > Len(pages) \/ Len(chunks) >= MAX_CHUNKS
    THEN IF chunk_texts # <<>> /\ Len(chunks) < MAX_CHUNKS
         THEN Append(chunks, chunk_texts)
         ELSE chunks
    ELSE LET texts == IF pages[p] = "text" THEN Append(chunk_texts, p) ELSE chunk_texts
             count == PagesInChunkAfter(pages[p], pages_in_chunk)
         IN IF pages[p] # "error" /\ count >= MAX_PAGES_PER_PART
            THEN ChunkLoop(pages, p + 1,
                           IF texts # <<>> THEN Append(chunks, texts) ELSE chunks,
                           <<>>, 0)
            ELSE ChunkLoop(pages, p + 1, chunks, texts, count)

extract_large_pdf_chunks(pages) == ChunkLoop(pages, 1, <<>>, <<>>, 0)

\* extract_text_pdf, lines 28-44: the text of the pages that have some.
extract_text_pdf(pages) == SelectSeq([i \in 1..Len(pages) |-> i], LAMBDA i : pages[i] = "text")

Returned(chunked, parts) == [fn |-> "return", chunked |-> chunked, parts |-> parts]
RaisedValueError == [fn |-> "raise", exc |-> "ValueError"]

\* extract_document_text_async, lines 236-276.
extract_document_text_async(file) ==
    IF file.ext = "pdf" /\ Len(file.pages) > MAX_TOTAL_PAGES
    THEN RaisedValueError
    ELSE IF file.ext = "pdf" /\ Len(file.pages) > MAX_PAGES_PER_PART
    THEN LET chunks == extract_large_pdf_chunks(file.pages)
         IN IF chunks # <<>> THEN Returned(TRUE, chunks) ELSE Returned(FALSE, <<<<>>>>)
    ELSE IF file.ext = "docx" /\ file.oversize
    THEN RaisedValueError
    ELSE IF file.ext = "pdf" THEN Returned(FALSE, <<extract_text_pdf(file.pages)>>)
    ELSE IF file.ext \in {"docx", "txt"}
    THEN Returned(FALSE, <<IF file.pages = <<>> THEN <<>> ELSE <<1>>>>)
    ELSE Returned(FALSE, <<<<>>>>)

\* A test that takes only an empty list of chunks for nothing.
NoTextOnlyEmptyList(v) == v.chunked /\ v.parts = <<>>

\* `not text_or_chunks` of documents.py line 98.
NoText(v) == IF v.chunked THEN v.parts = <<>> ELSE v.parts[1] = <<>>

\* The row of a run that is extracting.
ExtractingRow == Entered(NewRow(0), 0)

InitExtract ==
    /\ documents = <<ExtractingRow>>
    /\ now = 0
    /\ proc = "up"
    /\ pc = [r \in Runs |-> IF r = 1 THEN "extract" ELSE "idle"]
    /\ rdoc = [r \in Runs |-> IF r = 1 THEN 1 ELSE NoDoc]
    /\ checked = [d \in DocIds |-> 0]
    /\ resp = "none"
    /\ bpc = "idle"
    /\ bRest = <<>>
    /\ bQueued = {}
    /\ bSkipped = {}
    /\ cpc = [c \in Callers |-> "idle"]
    /\ attempt = [c \in Callers |-> 0]
    /\ permits = NoSemaphore
    /\ abandoned = 0
    /\ arg \in [fn : {"extract_document_text_async"}, file : Files]
    /\ call = NoCall
    /\ loop = NoLoop
    /\ ret = NoValue

\* line 97: the awaited extraction comes to its end.
ExtractDocument ==
    /\ arg # NoValue /\ arg.fn = "extract_document_text_async"
    /\ ret = NoValue
    /\ ret' = extract_document_text_async(arg.file)
    /\ UNCHANGED <<loop, arg, call, appVars, clientVars>>

\* lines 98-104
ExtractionEmpty(r) ==
    /\ ret # NoValue /\ ret.fn = "return" /\ NoText(ret)
    /\ ExtractEmpty(r)

\* line 97 raises
ExtractionRaises(r) ==
    /\ ret # NoValue /\ ret.fn = "raise" /\ ret.exc = "ValueError"
    /\ ExtractRaises(r)

\* lines 106-108
ExtractionGivesText(r) ==
    /\ ret # NoValue /\ ret.fn = "return" /\ ~NoText(ret)
    /\ ExtractText(r)

\* lines 99-107 raise while the outcome of the extraction is recorded.
ExtractionWriteRaises(r) ==
    /\ ret # NoValue /\ ret.fn = "return"
    /\ StageWriteRaises(r)

NextExtract ==
    \/ ExtractDocument
    \/ \E r \in Runs :
          \/ ExtractionEmpty(r)
          \/ ExtractionRaises(r)
          \/ ExtractionGivesText(r)
          \/ ExtractionWriteRaises(r)
          \/ \E l \in ResultLabels : ClassifyReturns(r, l)
          \/ ClassifyRaises(r)

SpecExtract == InitExtract /\ [][NextExtract]_vars

(***************************************************************************)
(* SpecCancel: one run of classify_document_pipeline with every await of   *)
(* the coroutine as a point where CancelledError can be raised, the await  *)
(* inside the `except Exception` handler (lines 143-148) included.  ret    *)
(* holds the exception the try block raised and, once a handler is over,   *)
(* how the coroutine ended and the failed writes its handlers attempted.   *)
(***************************************************************************)
\* The exceptions an await of the try block raises, by the await.
RaisedIn(stage) ==
    CASE stage = "cas" -> {"DBAPIError"}
      [] stage = "extract" -> {"ValueError", "DBAPIError"}
      [] stage = "classify" -> {"RuntimeError", "DBAPIError"}

Outcome(how, kind, writes) == [fn |-> how, exc |-> kind, attempts |-> writes]

\* lines 76-150: CancelledError raised at an await of the try block is caught
\* at line 128; raised at the await of lines 143-148 it is inside an except
\* clause already and no clause of this try statement catches it.
CancelledAt(where) == IF where = "handling" THEN "unwinding" ELSE "cancelled"

InitCancel ==
    /\ documents \in [{1} -> {NewRow(0), Requeued(FailedRow), CompletedRow}]
    /\ now = 0
    /\ proc = "up"
    /\ pc = [r \in Runs |-> IF r = 1 THEN "cas" ELSE "idle"]
    /\ rdoc = [r \in Runs |-> IF r = 1 THEN 1 ELSE NoDoc]
    /\ checked = [d \in DocIds |-> 0]
    /\ resp = "none"
    /\ bpc = "idle"
    /\ bRest = <<>>
    /\ bQueued = {}
    /\ bSkipped = {}
    /\ cpc = [c \in Callers |-> "idle"]
    /\ attempt = [c \in Callers |-> 0]
    /\ permits = NoSemaphore
    /\ abandoned = 0
    /\ arg = NoValue
    /\ call = NoCall
    /\ loop = NoLoop
    /\ ret = NoValue

\* An await of the try block raises: control passes to line 140.
TryRaises(r) ==
    /\ pc[r] \in {"cas", "extract", "classify"}
    /\ proc = "up"
    /\ \E kind \in RaisedIn(pc[r]) : ret' = Outcome("raise", kind, <<>>)
    /\ Goto(r, "handling")
    /\ UNCHANGED <<loop, arg, call, dbVars, retryVars, batchVars, clientVars>>

\* lines 140-150: the handler's write is over, done or failed; the coroutine
\* returns.
HandlerWrites(r) ==
    /\ pc[r] = "handling"
    /\ proc = "up"
    /\ ExceptHandler(rdoc[r], ret.exc)
    /\ Finish(r)
    /\ ret' = Outcome("return", ret.exc, <<_sanitize_classification_error(ret.exc)>>)
    /\ UNCHANGED <<loop, arg, call, now, proc, retryVars, batchVars, clientVars>>

\* The event loop cancels the task at the await it is suspended in.
CancelTask ==
    /\ proc = "up"
    /\ \E r \in Runs : pc[r] \notin {"idle", "off"}
    /\ proc' = "stopping"
    /\ pc' = [r \in Runs |-> IF pc[r] \in {"idle", "off"} THEN pc[r] ELSE CancelledAt(pc[r])]
    /\ UNCHANGED <<documents, now, rdoc, retryVars, batchVars, clientVars, fnVars>>

\* lines 128-138: the shutdown write is attempted and CancelledError re-raised.
CancelledInTry(r) ==
    /\ pc[r] = "cancelled"
    /\ \/ _update_status(rdoc[r], "failed", MsgShutdown)
       \/ UNCHANGED documents
    /\ Finish(r)
    /\ ret' = Outcome("raise", "CancelledError", <<MsgShutdown>>)
    /\ UNCHANGED <<loop, arg, call, now, proc, retryVars, batchVars, clientVars>>

\* CancelledError leaves the handler of lines 140-150 through the await of
\* its write, which the database has carried out or not, and the coroutine.
CancelledInHandler(r) ==
    /\ pc[r] = "unwinding"
    /\ ExceptHandler(rdoc[r], ret.exc)
    /\ Finish(r)
    /\ ret' = Outcome("raise", "CancelledError", <<_sanitize_classification_error(ret.exc)>>)
    /\ UNCHANGED <<loop, arg, call, now, proc, retryVars, batchVars, clientVars>>

NextCancel ==
    \/ \E r \in Runs :
          \/ PipelineCAS(r)
          \/ ExtractEmpty(r)
          \/ ExtractText(r)
          \/ \E l \in ResultLabels : ClassifyReturns(r, l)
          \/ TryRaises(r)
          \/ HandlerWrites(r)
          \/ CancelledInTry(r)
          \/ CancelledInHandler(r)
    \/ CancelTask
    \/ Exit
    \/ Tick

SpecCancel == InitCancel /\ [][NextCancel]_vars

(***************************************************************************)
(* SpecSanitize: `except Exception` of classify_document_pipeline (lines   *)
(* 140-150) for one exception, given by its type name and its message.     *)
(* A message is the text of its first 500 characters and whether it goes   *)
(* on after them.                                                          *)
(***************************************************************************)
ExceptionKinds ==
    {"Unauthenticated", "PermissionDenied", "ResourceExhausted", "InvalidArgument",
     "DeadlineExceeded", "ServiceUnavailable", "InternalServerError", "ValueError",
     "RuntimeError", "DBAPIError", "KeyError"}

RawMessages ==
    [first : {"PDF has 6 pages (max 5). Reduce page count or increase PDF_MAX_TOTAL_PAGES env var.",
              "PDF has 7 pages (max 5). Reduce page count or increase PDF_MAX_TOTAL_PAGES env var.",
              "cannot open /srv/uploads/7f3a-payroll.pdf: password=hunter2",
              "Vertex AI authentication failed: 401 key AIza-secret"},
     more : BOOLEAN]

\* str(exc)[:500]
Str500(msg) == msg.first

\* documents.py lines 47-64 on an exception with a message: the entry of
\* SAFE_ERROR_MAP for ValueError is built from the message.
safe_error(e) ==
    IF e.exc = "ValueError"
    THEN Str500(e.msg)
    ELSE _sanitize_classification_error(e.exc)

InitSanitize ==
    /\ documents \in [{1} -> {NewRow(0), Entered(NewRow(0), 0),
                              [Entered(NewRow(0), 0) EXCEPT !.status = "classifying"]}]
    /\ now = 0
    /\ proc = "up"
    /\ pc = [r \in Runs |-> IF r = 1 THEN "handling" ELSE "idle"]
    /\ rdoc = [r \in Runs |-> IF r = 1 THEN 1 ELSE NoDoc]
    /\ checked = [d \in DocIds |-> 0]
    /\ resp = "none"
    /\ bpc = "idle"
    /\ bRest = <<>>
    /\ bQueued = {}
    /\ bSkipped = {}
    /\ cpc = [c \in Callers |-> "idle"]
    /\ attempt = [c \in Callers |-> 0]
    /\ permits = NoSemaphore
    /\ abandoned = 0
    /\ arg \in [fn : {"_sanitize_classification_error"}, exc : ExceptionKinds, msg : RawMessages]
    /\ call = NoCall
    /\ loop = NoLoop
    /\ ret = NoValue

\* line 142: safe_error = _sanitize_classification_error(e)
Sanitize ==
    /\ arg # NoValue /\ arg.fn = "_sanitize_classification_error"
    /\ ret = NoValue
    /\ ret' = [fn |-> "return", value |-> safe_error(arg)]
    /\ UNCHANGED <<loop, arg, call, appVars, clientVars>>

\* lines 143-150: failed is written with safe_error through a new session; a
\* failure of the write is logged and swallowed.
PersistError(r) ==
    /\ pc[r] = "handling"
    /\ arg # NoValue /\ arg.fn = "_sanitize_classification_error"
    /\ ret # NoValue
    /\ \/ _update_status(rdoc[r], "failed", ret.value)
       \/ UNCHANGED documents
    /\ Finish(r)
    /\ UNCHANGED <<now, proc, retryVars, batchVars, clientVars, fnVars>>

NextSanitize == Sanitize \/ \E r \in Runs : PersistError(r)

SpecSanitize == InitSanitize /\ [][NextSanitize]_vars

(***************************************************************************)
(* SpecChunks: the text-only chunk loop of classify_extracted_text_async   *)
(* (lines 328-349) in one pipeline run, for the chunks                     *)
(* extract_large_pdf_chunks gave for a PDF whose pages all have text.  The *)
(* service answers each attempt for each chunk with a text, a timeout, a   *)
(* quota error or an authentication error.  call.calls and call.sleeps     *)
(* run over the whole loop.                                                *)
(***************************************************************************)
ChunkAnswers ==
    {a \in ServiceAnswers :
        \/ a.kind \in {"Timeout", "ResourceExhausted", "Unauthenticated"}
        \/ a.kind = "text" /\ a.label = "confidential" /\ a.confidence = 90}

\* PDFs on the chunked path: more pages than one part, no more than the
\* guardrail allows.
LargePdfs ==
    UNION {[1..n -> {"text"}] : n \in (MAX_PAGES_PER_PART + 1)..MAX_TOTAL_PAGES}

InitChunks ==
    /\ documents = <<ClassifyingRow>>
    /\ now = 0
    /\ proc = "up"
    /\ pc = [r \in Runs |-> IF r = 1 THEN "classify" ELSE "idle"]
    /\ rdoc = [r \in Runs |-> IF r = 1 THEN 1 ELSE NoDoc]
    /\ checked = [d \in DocIds |-> 0]
    /\ resp = "none"
    /\ bpc = "idle"
    /\ bRest = <<>>
    /\ bQueued = {}
    /\ bSkipped = {}
    /\ cpc = [c \in Callers |-> "idle"]
    /\ attempt = [c \in Callers |-> 0]
    /\ permits = NoSemaphore
    /\ abandoned = 0
    /\ arg = NoValue
    /\ call = NoCall
    /\ ret = NoValue
    /\ \E pages \in LargePdfs :
          LET n == Len(extract_large_pdf_chunks(pages))
          IN loop \in [chunks : [1..n -> [1..MAX_RETRIES -> ChunkAnswers]],
                       i : {0}, best : {NoLoop.best}]

\* lines 328-337: the loop takes the next chunk and calls
\* classify_text_with_gemini for it.
ChunkCall ==
    /\ pc[1] = "classify"
    /\ arg = NoValue /\ ret = NoValue
    /\ loop.i < Len(loop.chunks)
    /\ loop' = [loop EXCEPT !.i = @ + 1]
    /\ arg' = [fn |-> "classify_text_with_gemini", answers |-> loop.chunks[loop.i + 1]]
    /\ UNCHANGED <<call, ret, appVars, clientVars>>

\* lines 337-345: the call returned; the result replaces the best so far
\* when its rank is strictly higher.
ChunkReturns ==
    /\ arg # NoValue
    /\ call.pc = "done" /\ ret.fn = "return"
    /\ loop' = [loop EXCEPT !.best = AggregateFrom(<<ret.value>>, 1, @)]
    /\ call' = [call EXCEPT !.pc = "idle", !.attempt = 0]
    /\ arg' = NoValue
    /\ ret' = NoValue
    /\ UNCHANGED <<appVars, clientVars>>

\* The loop is over with every chunk classified.
ChunksDone == loop.chunks # <<>> /\ loop.i = Len(loop.chunks) /\ arg = NoValue

\* lines 347-348 and documents.py 108-126: best_label goes to the run.
ChunksComplete(r) ==
    /\ ChunksDone
    /\ ClassifyReturns(r, loop.best.label)

\* documents.py lines 110-126 raise while best_label is recorded.
ChunksWriteRaises(r) ==
    /\ ChunksDone
    /\ StageWriteRaises(r)

NextChunks ==
    \/ ChunkCall
    \/ GeminiEnter
    \/ GeminiReturns
    \/ GeminiNoAnswer
    \/ GeminiPermanent
    \/ GeminiQuota
    \/ GeminiWake
    \/ ChunkReturns
    \/ \E r \in Runs : ChunksComplete(r) \/ ChunksWriteRaises(r) \/ CallFails(r)

SpecChunks == InitChunks /\ [][NextChunks]_vars

(***************************************************************************)
(* The claims                                                              *)
(***************************************************************************)
\* Runs that have won the entry CAS on d and have not finished.
ActiveRuns(d) == {r \in Runs : rdoc[r] = d /\ pc[r] \in {"extract", "classify"}}

\* Runs handed off for d by the step.
NewRunsOn(d) == {r \in Runs : pc[r] = "idle" /\ pc'[r] = "cas" /\ rdoc'[r] = d}

\* The step took d from failed to queued.
RetryWon(d) == documents[d].status = "failed" /\ documents'[d].status = "queued"

\* The step is the UPDATE of a single-retry request on d.
SingleRetryCas(d) == proc' = "up" /\ checked'[d] < checked[d]

\* The step is one iteration of the batch-retry loop, visiting d.
BatchVisits(d) ==
    /\ bpc = "loop" /\ bpc' = "loop"
    /\ bRest # <<>> /\ Head(bRest) = d /\ bRest' = Tail(bRest)

\* The step is the startup recovery of lifespan.
SweepStep == proc = "down" /\ proc' = "up"

StatusTable ==
    {<<"queued", "extracting_text">>, <<"extracting_text", "classifying">>,
     <<"classifying", "completed">>, <<"queued", "failed">>,
     <<"extracting_text", "failed">>, <<"classifying", "failed">>,
     <<"failed", "queued">>}

\* C1: every change of classificationStatus made by a step is an edge of the
\* transition table queued -> extracting_text -> classifying -> completed,
\* non-terminal -> failed, failed -> queued, and failed -> queued is made by
\* a retry operation only.
C1_StatusFollowsTable ==
    [][\A d \in Created :
         documents'[d].status # documents[d].status =>
            /\ <<documents[d].status, documents'[d].status>> \in StatusTable
            /\ documents[d].status = "failed" => SingleRetryCas(d) \/ BatchVisits(d)]_vars

\* C2: of the invocations started on the same queued document one wins the
\* entry CAS; an invocation that finds the row not queued goes no further;
\* and the terminal status the document ends in is written once: no pipeline
\* step writes to a row that is completed or failed.
C2_OneWinnerOneTerminalWrite ==
    [][\A r \in Runs :
         LET d == rdoc[r]
         IN pc[r] # "idle" /\ pc'[r] # pc[r] /\ proc' = proc =>
              /\ pc[r] = "cas" /\ pc'[r] = "extract" =>
                    documents[d].status = "queued" /\ ActiveRuns(d) = {}
              /\ pc[r] = "cas" /\ documents[d].status # "queued" =>
                    pc'[r] = "idle"
              /\ documents[d].status \in Terminal => documents'[d] = documents[d]]_vars

\* C3: at every moment each document has at most one active pipeline run.
C3_AtMostOneActiveRun ==
    \A d \in Created : Cardinality(ActiveRuns(d)) <= 1

\* C4: no document stays in a non-terminal status across a restart: every
\* document that the stopped process left in queued, extracting_text or
\* classifying is failed by the recovery that runs at the next startup.
C4_SweepLeavesNoneHanging ==
    [][SweepStep =>
         \A d \in Created : documents'[d].status \in Terminal]_vars

\* C5: a single retry on a document whose status is not failed is rejected:
\* the request does not pass the status check, the answer is an error, no
\* field of the row changes and no pipeline run is started.
C5_RetryOfNonFailedRejected ==
    [][\A d \in Created :
         documents[d].status # "failed" =>
            /\ checked'[d] <= checked[d]
            /\ SingleRetryCas(d) =>
                  /\ resp' = "409"
                  /\ documents'[d] = documents[d]
                  /\ NewRunsOn(d) = {}
            /\ resp' = "400" /\ resp # "400" =>
                  /\ documents' = documents
                  /\ pc' = pc /\ rdoc' = rdoc]_vars

C5_Witness == resp = "400"

\* C6: retries racing on a failed document: a failed -> queued change is made
\* by the CAS of one retry and hands off exactly one pipeline run; a single
\* retry answers 200 exactly when its own CAS made the change; one that passed
\* the status check and then found the row no longer failed answers 409,
\* changes nothing and hands off no run.
C6_OneRetryWins ==
    [][\A d \in Created :
         /\ RetryWon(d) =>
               /\ SingleRetryCas(d) \/ BatchVisits(d)
               /\ Cardinality(NewRunsOn(d)) = 1
         /\ SingleRetryCas(d) =>
               /\ RetryWon(d) <=> documents[d].status = "failed"
               /\ resp' = IF RetryWon(d) THEN "200" ELSE "409"
               /\ ~RetryWon(d) => NewRunsOn(d) = {} /\ documents' = documents]_vars

\* Two retries had passed the status check on the same failed document; one
\* has requeued it and the other has been answered 409.
C6_Witness ==
    /\ resp = "409"
    /\ \E r \in Runs : pc[r] = "cas" /\ documents[rdoc[r]].status = "queued"

\* C7: one batch-retry call requeues at most MAX_RETRY_BATCH_SIZE documents;
\* it hands a document to the pipeline exactly once when its own CAS on the
\* document succeeded and not otherwise; a failed document whose file is
\* missing stays failed, gets the file-missing error and is not handed off.
C7_BatchRetryBounded ==
    [][/\ Cardinality(bQueued') <= MAX_RETRY_BATCH_SIZE
       /\ \A d \in Created :
            BatchVisits(d) =>
               /\ d \in bQueued' <=> RetryWon(d)
               /\ Cardinality(NewRunsOn(d)) = IF RetryWon(d) THEN 1 ELSE 0
               /\ d \in bSkipped' /\ documents[d].status = "failed" =>
                     /\ documents'[d] = [documents[d] EXCEPT !.error = MsgFileMissing]
                     /\ NewRunsOn(d) = {}]_vars

\* The call has requeued as many documents as the ceiling allows and has
\* skipped a failed document whose file is missing.
C7_Witness ==
    /\ Cardinality(bQueued) = MAX_RETRY_BATCH_SIZE
    /\ \E d \in bSkipped :
          documents[d].status = "failed" /\ documents[d].error = MsgFileMissing

QueuedAge(row, t) ==
    t - (IF row.queuedAt = NullTs THEN row.uploadDate ELSE row.queuedAt)

\* C9: the startup recovery fails a queued document only if it has waited
\* longer than the queued threshold, its age taken from the staleness
\* timestamp or, when that is null, from the creation time.
C9_SweepQueuedOnlyPastThreshold ==
    [][SweepStep =>
         \A d \in Created :
            documents[d].status = "queued" /\ documents'[d] # documents[d] =>
               QueuedAge(documents[d], now) > QUEUED_STALE_TIMEOUT_MINUTES]_vars

\* C10: the calls to the external classifier that are in flight never exceed
\* the concurrency limit.
C10_InFlightBounded == InFlight <= MAX_CONCURRENT_GEMINI_CALLS

\* The call of classify_text_with_gemini under study has returned or raised.
CallOver == call.pc = "done"

\* The service answers ResourceExhausted to calls 1..k and text to call k+1.
QuotaThenText(k) ==
    /\ \A i \in 1..k : arg.answers[i].kind = "ResourceExhausted"
    /\ arg.answers[k + 1].kind = "text"

\* C11: for every k < MAX_RETRIES, when the service raises ResourceExhausted
\* on attempts 1..k and answers attempt k+1, classify_text_with_gemini makes
\* exactly k+1 calls, returns the parsed answer of call k+1, and sleeps k
\* times, each backoff strictly longer than the one before.
C11_RetriesUntilSuccess ==
    \A k \in 0..(MAX_RETRIES - 1) :
       CallOver /\ QuotaThenText(k) =>
          /\ call.calls = k + 1
          /\ ret = [fn |-> "return", value |-> parse_gemini_response(arg.answers[k + 1])]
          /\ Len(call.sleeps) = k
          /\ \A i \in 1..(k - 1) : call.sleeps[i] < call.sleeps[i + 1]

\* Two quota errors, then an answer on the last attempt, and the call is over.
C11_Witness ==
    /\ CallOver
    /\ QuotaThenText(MAX_RETRIES - 1)
    /\ call.calls = MAX_RETRIES

\* Attempt j is the first whose answer ends the loop by itself.
StopsAt(j) ==
    \A i \in 1..(j - 1) :
       arg.answers[i].kind \notin {"text", "Unauthenticated", "InvalidArgument"}

\* The attempts before j that were followed by a sleep.
SleepsBefore(j) ==
    Cardinality({i \in 1..(j - 1) :
                   arg.answers[i].kind \in {"ResourceExhausted", "ServiceUnavailable"}})

\* What C12 says of classify_text_with_gemini: after Unauthenticated or
\* InvalidArgument on attempt j the function has raised, call j was the last
\* and no sleep followed it.
RaisesAtOnce(j) ==
    /\ call.calls = j
    /\ ret.fn = "raise"
    /\ Len(call.sleeps) = SleepsBefore(j)

PermanentAt(j) ==
    /\ arg # NoValue /\ arg.fn = "classify_text_with_gemini"
    /\ CallOver
    /\ StopsAt(j)
    /\ arg.answers[j].kind \in {"Unauthenticated", "InvalidArgument"}

\* The pipeline run of SpecCall has ended.
RunOver == pc[1] = "idle"

\* C12 as the claim states it: when attempt j fails with Unauthenticated or
\* InvalidArgument, classify_text_with_gemini raises at once, with no further
\* call and no sleep, and the pipeline run ends with status failed.
C12_PermanentFailsRun ==
    \A j \in 1..MAX_RETRIES :
       PermanentAt(j) =>
          /\ RaisesAtOnce(j)
          /\ RunOver => documents[1].status = "failed"

\* C12, amended: as above, and the run ends with status failed and an error
\* message unless the handler's own write of failed fails (it is logged and
\* swallowed), in which case the row is left as the run found it.
C12_PermanentFailsRunUnlessWriteLost ==
    \A j \in 1..MAX_RETRIES :
       PermanentAt(j) =>
          /\ RaisesAtOnce(j)
          /\ RunOver =>
                \/ documents[1].status = "failed" /\ documents[1].error # NoError
                \/ documents[1] = ClassifyingRow

\* InvalidArgument on the first attempt, and the run has ended failed.
C12_Witness ==
    /\ PermanentAt(1)
    /\ arg.answers[1].kind = "InvalidArgument"
    /\ RunOver
    /\ documents[1].status = "failed"

\* The message the pipeline persists when classify_text_with_gemini raises
\* for the given cause.
PersistedFor(cause) == _sanitize_classification_error(RaisedBy(cause).exc)

\* C13: when the service raises Unauthenticated on attempt 1 and the run ends
\* failed, the persisted error is the authentication-specific message, and it
\* differs from the message persisted when the retries are exhausted and
\* from the one persisted for InvalidArgument.
C13_AuthenticationMessageDistinct ==
    /\ arg # NoValue /\ arg.fn = "classify_text_with_gemini"
    /\ arg.answers[1].kind = "Unauthenticated"
    /\ RunOver
    /\ documents[1].status = "failed"
    => /\ documents[1].error = _sanitize_classification_error("Unauthenticated")
       /\ documents[1].error # PersistedFor("exhausted")
       /\ documents[1].error # PersistedFor("InvalidArgument")

\* The chunk results in every order.
Reorderings(results) ==
    {[i \in 1..Len(results) |-> results[p[i]]] : p \in Permutations(1..Len(results))}

Aggregated == arg # NoValue /\ arg.fn = "aggregate" /\ ret # NoValue

\* C14: aggregation gives the same (label, confidence) pair for every
\* permutation of the chunk results, also when several chunks carry the
\* highest-ranked label with different confidences.
C14_AggregationOrderIndependent ==
    Aggregated =>
       \A other \in Reorderings(arg.results) : AggregateChunks(other) = ret.value

\* The rank order the claim gives: confidential > internal > public >
\* unclassified.
RankOrder == <<"unclassified", "public", "internal", "confidential">>
RankOf(l) == CHOOSE i \in 1..Len(RankOrder) : RankOrder[i] = l

\* C15: the aggregated label is the label of highest security rank among the
\* chunks whatever the confidences; when it is not unclassified the reported
\* confidence is that of a chunk carrying the label; when every chunk is
\* unclassified the result is (unclassified, 0.0).
C15_AggregationMaxRank ==
    Aggregated =>
       LET rs == arg.results
           n == Len(rs)
       IN /\ \E i \in 1..n : rs[i].label = ret.value.label
          /\ \A i \in 1..n : RankOf(rs[i].label) <= RankOf(ret.value.label)
          /\ ret.value.label # "unclassified" =>
                \E i \in 1..n : rs[i] = ret.value
          /\ (\A i \in 1..n : rs[i].label = "unclassified") =>
                ret.value = [label |-> "unclassified", confidence |-> 0]

\* A low-confidence confidential chunk has beaten a high-confidence public
\* one and an internal one.
C15_Witness ==
    /\ Aggregated
    /\ ret.value = [label |-> "confidential", confidence |-> 70]
    /\ \E i \in 1..Len(arg.results) :
          arg.results[i] = [label |-> "public", confidence |-> 90]
    /\ \E i \in 1..Len(arg.results) : arg.results[i].label = "internal"

Extracted == arg # NoValue /\ arg.fn = "extract_document_text_async" /\ ret # NoValue

\* The chunks extraction returned: none when it returned a string.
ChunksReturned == IF ret.fn = "return" /\ ret.chunked THEN ret.parts ELSE <<>>

CeilDiv(a, b) == (a + b - 1) \div b
Least(a, b) == IF a <= b THEN a ELSE b

\* C16: a PDF with more than MAX_PAGES_PER_PART and at most MAX_TOTAL_PAGES
\* pages gives min(ceil(pages / MAX_PAGES_PER_PART), MAX_CHUNKS) chunks,
\* never more than MAX_CHUNKS; chunk k holds pages of the k-th range of
\* MAX_PAGES_PER_PART consecutive pages only, in ascending page order.
C16_ChunkCountAndRanges ==
    Extracted /\ arg.file.ext = "pdf"
    /\ Len(arg.file.pages) > MAX_PAGES_PER_PART
    /\ Len(arg.file.pages) <= MAX_TOTAL_PAGES
    => LET chunks == ChunksReturned
       IN /\ Len(chunks) =
                Least(CeilDiv(Len(arg.file.pages), MAX_PAGES_PER_PART), MAX_CHUNKS)
          /\ Len(chunks) <= MAX_CHUNKS
          /\ \A k \in 1..Len(chunks) :
                /\ \A i \in 1..Len(chunks[k]) :
                      /\ chunks[k][i] > (k - 1) * MAX_PAGES_PER_PART
                      /\ chunks[k][i] <= k * MAX_PAGES_PER_PART
                /\ \A i \in 1..(Len(chunks[k]) - 1) : chunks[k][i] < chunks[k][i + 1]

LargePdf ==
    /\ Extracted /\ arg.file.ext = "pdf"
    /\ Len(arg.file.pages) > MAX_PAGES_PER_PART
    /\ Len(arg.file.pages) <= MAX_TOTAL_PAGES

\* The range of MAX_PAGES_PER_PART consecutive pages that page p lies in.
RangeOf(p) == CeilDiv(p, MAX_PAGES_PER_PART)

\* C16, amended: such a PDF gives at most min(ceil(pages /
\* MAX_PAGES_PER_PART), MAX_CHUNKS) chunks, none of them empty, holding pages
\* in ascending order with no page in two chunks; a range of pages without
\* text gives no chunk; when no page fails to extract every chunk lies within
\* one range of MAX_PAGES_PER_PART consecutive pages; and when every page has
\* text the number of chunks is exactly that minimum and chunk k is range k.
C16_ChunksWhenPagesHaveText ==
    LargePdf =>
       LET chunks == ChunksReturned
           pages == arg.file.pages
           n == Len(pages)
       IN /\ Len(chunks) <= Least(CeilDiv(n, MAX_PAGES_PER_PART), MAX_CHUNKS)
          /\ \A k \in 1..Len(chunks) :
                /\ chunks[k] # <<>>
                /\ \A i \in 1..(Len(chunks[k]) - 1) : chunks[k][i] < chunks[k][i + 1]
                /\ k < Len(chunks) =>
                      chunks[k][Len(chunks[k])] < chunks[k + 1][1]
          /\ (\A p \in 1..n : pages[p] # "error") =>
                \A k \in 1..Len(chunks) : \A i \in 1..Len(chunks[k]) :
                   RangeOf(chunks[k][i]) = RangeOf(chunks[k][1])
          /\ (\A p \in 1..n : pages[p] = "text") =>
                /\ Len(chunks) = Least(CeilDiv(n, MAX_PAGES_PER_PART), MAX_CHUNKS)
                /\ \A k \in 1..Len(chunks) : RangeOf(chunks[k][1]) = k

\* A PDF of MAX_TOTAL_PAGES pages of text has been cut into MAX_CHUNKS chunks,
\* fewer than its ranges of pages.
C16_Witness ==
    /\ LargePdf
    /\ \A p \in 1..Len(arg.file.pages) : arg.file.pages[p] = "text"
    /\ Len(ChunksReturned) = MAX_CHUNKS
    /\ CeilDiv(Len(arg.file.pages), MAX_PAGES_PER_PART) > MAX_CHUNKS

\* The value returned holds no text.
NoTextAtAll ==
    ret.fn = "return" /\ \A k \in 1..Len(ret.parts) : ret.parts[k] = <<>>

\* Extraction gave nothing (an empty text; extract_document_text_async also
\* returns it when it fails) or was rejected by a guardrail.
ExtractionFailed == Extracted /\ (ret.fn = "raise" \/ NoTextAtAll)

\* The run has not gone on to classification: the status was never set to
\* classifying and classify_extracted_text_async is not awaited.
NotClassifying ==
    /\ documents[1].status \in {"extracting_text", "failed"}
    /\ pc[1] \in {"extract", "idle"}

\* The guardrails reject: a PDF of more than MAX_TOTAL_PAGES pages, a DOCX
\* above the size ceiling.
GuardrailsReject ==
    Extracted /\ ( \/ arg.file.ext = "pdf" /\ Len(arg.file.pages) > MAX_TOTAL_PAGES
                   \/ arg.file.ext = "docx" /\ arg.file.oversize )
    => ret.fn = "raise"

\* C17 as the claim states it: when extraction yields nothing, fails or is
\* rejected by a guardrail, the run never sets classifying, makes no
\* classifier call, does not extract again, and ends with status failed and
\* a non-null error.
C17_ExtractionFailureFailsRun ==
    /\ GuardrailsReject
    /\ ExtractionFailed =>
          /\ NotClassifying
          /\ RunOver => documents[1].status = "failed" /\ documents[1].error # NoError

\* C17, amended: as above, and the run ends with status failed and a non-null
\* error unless the exception handler's own write of failed fails (logged and
\* swallowed), in which case the row is left as it was, in extracting_text.
C17_ExtractionFailureFailsRunUnlessWriteLost ==
    /\ GuardrailsReject
    /\ ExtractionFailed =>
          /\ NotClassifying
          /\ RunOver =>
                \/ documents[1].status = "failed" /\ documents[1].error # NoError
                \/ documents[1] = ExtractingRow

\* A PDF over the page ceiling was rejected and the run has ended failed with
\* the message of the guardrail.
C17_Witness ==
    /\ Extracted /\ arg.file.ext = "pdf"
    /\ Len(arg.file.pages) > MAX_TOTAL_PAGES
    /\ RunOver
    /\ documents[1].status = "failed"
    /\ documents[1].error = _sanitize_classification_error("ValueError")

\* classify_text_with_gemini returned a (label, confidence) pair.
ResultReturned == ret # NoValue /\ ret.fn = "return" /\ CallOver

\* The answer that was returned named a valid label with a confidence below
\* the threshold.
LowConfidenceAnswer ==
    /\ ResultReturned
    /\ ThisAnswer.label \in VALID_LABELS
    /\ ThisAnswer.confidence < _CONFIDENCE_THRESHOLD

\* The row after the completing write, as C18 describes it: the label of the
\* result, unclassified with a note when the confidence was low, and no error
\* beside public, internal or confidential.
CompletedWithResult ==
    /\ documents[1].status = "completed"
    /\ documents[1].label = ret.value.label
    /\ LowConfidenceAnswer =>
          documents[1].label = "unclassified" /\ documents[1].error # NoError
    /\ documents[1].label \in {"public", "internal", "confidential"} =>
          documents[1].error = NoError

\* C18 as the claim states it: whenever classification returns a result, a
\* low-confidence one included, the run ends with status completed and never
\* failed; a low-confidence result is stored as unclassified with a non-null
\* note, and public, internal or confidential is stored with a null error.
C18_ResultCompletesRun ==
    /\ LowConfidenceAnswer => ret.value.label = "unclassified"
    /\ ResultReturned /\ RunOver => CompletedWithResult

\* C18, amended: as above, unless the database write that records the result
\* raises; the run then takes the failure path and ends failed with the
\* generic error message, or, when the handler's write fails too, with the
\* row left in classifying.
C18_ResultCompletesRunUnlessWriteFails ==
    /\ LowConfidenceAnswer => ret.value.label = "unclassified"
    /\ ResultReturned /\ RunOver =>
          \/ CompletedWithResult
          \/ /\ documents[1].status = "failed"
             /\ documents[1].error = _sanitize_classification_error("DBAPIError")
             /\ documents[1].label = ClassifyingRow.label
          \/ documents[1] = ClassifyingRow

\* A confidential answer with confidence below the threshold ended the run
\* completed, unclassified, with the low-confidence note.
C18_Witness ==
    /\ LowConfidenceAnswer
    /\ ThisAnswer.label = "confidential"
    /\ RunOver
    /\ documents[1].status = "completed"
    /\ documents[1].label = "unclassified"
    /\ documents[1].error = MsgLowConfidence

\* C19: in every reachable state, the classification_error of every document
\* is non-null only if its status is failed, or its status is completed and
\* its label unclassified, under every interleaving of pipeline runs, single
\* retry, batch retry with its missing-file annotation, and the sweep.
C19_ErrorOnlyFailedOrCaveat ==
    \A d \in Created :
       documents[d].error # NoError =>
          \/ documents[d].status = "failed"
          \/ documents[d].status = "completed" /\ documents[d].label = "unclassified"

\* The rows whose label the step changes.
LabelWritten ==
    {d \in Created : d \in DOMAIN documents' /\ documents'[d].label # documents[d].label}

\* C20: the label of a document changes only in a write that sets its status
\* to completed; the entry CAS, the classifying write, every failed write,
\* the sweep and both retry operations leave the label as it was.
C20_LabelOnlyWithCompleted ==
    [][\A d \in LabelWritten : documents'[d].status = "completed"]_vars

\* A document has been completed with a label other than the column default.
C20_Witness ==
    \E d \in Created :
       documents[d].status = "completed" /\ documents[d].label = "confidential"

\* Run 1 leaves a handler in which CancelledError is in flight.
CancelledRunEnds ==
    pc[1] \in {"cancelled", "unwinding"} /\ pc'[1] = "idle" /\ proc' = "stopping"

\* C21: a run cancelled at a suspension point attempts one write of failed
\* with the shutdown message, re-raises the cancellation whether or not the
\* write succeeded, and does no further stage work: the row is as it was or
\* failed with the shutdown message.
C21_CancelWritesShutdownAndReraises ==
    [][/\ pc[1] \in {"cancelled", "unwinding"} =>
             pc'[1] \in {"cancelled", "unwinding", "idle"}
       /\ CancelledRunEnds =>
             /\ ret' = Outcome("raise", "CancelledError", <<MsgShutdown>>)
             /\ \/ documents' = documents
                \/ documents' = [documents EXCEPT ![1] = Failed(@, MsgShutdown)]]_vars

\* The status a run suspended at the given await last read or wrote for its
\* document, which a conditional update would name in its WHERE clause.
ExpectedStatus(where) ==
    CASE where = "cas" -> "queued"
      [] where = "extract" -> "extracting_text"
      [] where = "classify" -> "classifying"

\* Run r goes on from an await of its try block and the status of its
\* document changes in the step: r wrote the status.
RunWritesStatus(r) ==
    /\ pc[r] \in {"cas", "extract", "classify"}
    /\ pc'[r] # pc[r]
    /\ documents'[rdoc[r]].status # documents[rdoc[r]].status

\* C22: every write of classification_status is a conditional update: a
\* pipeline run changes the status only of a row whose current status is the
\* one the run expects, so that no run overwrites a status another execution
\* has changed since the run last read or wrote it.
C22_StatusWritesConditional ==
    [][\A r \in Runs :
          RunWritesStatus(r) => documents[rdoc[r]].status = ExpectedStatus(pc[r])]_vars

\* Run r ends at its entry UPDATE without having set extracting_text: the
\* UPDATE matched no row, or raised.
EndsAtEntry(r) ==
    /\ pc[r] = "cas"
    /\ pc'[r] = "idle"
    /\ ~(documents[rdoc[r]].status = "queued"
         /\ documents'[rdoc[r]].status = "extracting_text")

\* C23: an invocation whose queued -> extracting_text CAS does not succeed
\* leaves status, label, error and classification_queued_at of its document
\* unchanged on every exit path, also when the CAS raises.
C23_LostCasLeavesRow ==
    [][\A r \in Runs :
          EndsAtEntry(r) => documents'[rdoc[r]] = documents[rdoc[r]]]_vars

\* The step moves document d along a stage transition of the pipeline.
StageTransition(d) ==
    \/ documents[d].status = "queued" /\ documents'[d].status = "extracting_text"
    \/ documents[d].status = "extracting_text" /\ documents'[d].status = "classifying"

\* C24: both stage transitions, queued -> extracting_text and
\* extracting_text -> classifying, set classification_error to null and
\* classification_queued_at to the time of the transition, so that the sweep
\* measures for a classifying document the time since it entered classifying.
C24_TransitionsRefreshTimestamp ==
    [][\A d \in Created :
          StageTransition(d) =>
             /\ documents'[d].error = NoError
             /\ documents'[d].queuedAt = now]_vars

\* The step re-queues document d: a retry moves it from failed to queued.
Requeues(d) ==
    documents[d].status = "failed" /\ documents'[d].status = "queued"

\* C25: a retry, single or batch, that moves a document from failed to queued
\* resets classification_queued_at to the time of the re-queue, so that a
\* sweep running less than the queued threshold later leaves it queued.
C25_RetryResetsTimestamp ==
    [][\A d \in Created : Requeues(d) => documents'[d].queuedAt = now]_vars

\* The conditions C26 calls transient.
TransientKinds == {"Timeout", "ResourceExhausted", "ServiceUnavailable", "empty"}

\* Every attempt of the call under study meets a transient condition.
AllTransient ==
    /\ arg # NoValue /\ arg.fn = "classify_text_with_gemini"
    /\ \A i \in 1..MAX_RETRIES : arg.answers[i].kind \in TransientKinds

\* What C26 says of classify_text_with_gemini: never more than MAX_RETRIES
\* outbound calls, and after MAX_RETRIES transient failures it has raised
\* having made exactly MAX_RETRIES calls.
RaisesWhenExhausted ==
    /\ call.calls <= MAX_RETRIES
    /\ AllTransient /\ CallOver =>
          /\ ret = RaisedBy("exhausted")
          /\ call.calls = MAX_RETRIES

\* C26 as the claim states it: one call makes at most MAX_RETRIES outbound
\* calls; when all of them fail with a transient condition the function
\* raises, no further attempt is made, and the run ends with status failed.
C26_ExhaustedFailsRun ==
    /\ RaisesWhenExhausted
    /\ AllTransient /\ CallOver /\ RunOver => documents[1].status = "failed"

\* C26, amended: as above, and the run ends with status failed and an error
\* message unless the handler's own write of failed fails (it is logged and
\* swallowed), in which case the row is left in classifying.
C26_ExhaustedFailsRunUnlessWriteLost ==
    /\ RaisesWhenExhausted
    /\ AllTransient /\ CallOver /\ RunOver =>
          \/ documents[1].status = "failed" /\ documents[1].error # NoError
          \/ documents[1] = ClassifyingRow

\* A timeout, an empty response and a quota error used up the attempts and
\* the run has ended failed.
C26_Witness ==
    /\ AllTransient
    /\ arg.answers[1].kind = "Timeout"
    /\ arg.answers[2].kind = "empty"
    /\ arg.answers[MAX_RETRIES].kind = "ResourceExhausted"
    /\ call.calls = MAX_RETRIES
    /\ RunOver
    /\ documents[1].status = "failed"

\* The delay the claim expects after the failure of attempt i.
DelayAfter(i) ==
    IF arg.answers[i].kind = "ResourceExhausted" THEN Backoff(i) ELSE 1

\* C27: between a transiently failed attempt and the next attempt of the same
\* call there is always a backoff delay, exponential in the attempt number
\* after quota exhaustion and a short fixed one after every other transient
\* condition, a timeout and an empty response included.
C27_BackoffBeforeEveryRetry ==
    arg # NoValue /\ arg.fn = "classify_text_with_gemini" /\ call.pc = "call" =>
       /\ Len(call.sleeps) = call.attempt - 1
       /\ \A i \in 1..Len(call.sleeps) : call.sleeps[i] = DelayAfter(i)

\* The handler has persisted failed for the exception under study.
ErrorPersisted ==
    /\ arg # NoValue /\ arg.fn = "_sanitize_classification_error"
    /\ pc[1] = "idle"
    /\ documents[1].status = "failed"

\* C28: the error string persisted with failed after an exception depends
\* only on the kind of the exception (the same string whatever the message),
\* and no text of the raw exception message is persisted.
C28_PersistedErrorByKindOnly ==
    ErrorPersisted =>
       \A m \in RawMessages :
          /\ documents[1].error = safe_error([exc |-> arg.exc, msg |-> m])
          /\ documents[1].error # Str500(m)

\* The callers inside `async with _api_semaphore`: from the acquisition before
\* attempt 1 to the return or raise, sleeps included.
Holders == {c \in Callers : cpc[c] \in {"call", "sleep"}}

\* C29: a call that reaches the classifier holds exactly one permit from
\* before its first attempt until it returns or raises, across retries and
\* backoff sleeps, and gives it back on every exit path, cancellation
\* included: the free permits are always the limit less the calls inside, and
\* the limit itself whenever no call is running.
C29_OnePermitPerCall ==
    /\ \A c \in Callers : attempt[c] >= 1 <=> c \in Holders
    /\ permits # NoSemaphore =>
          /\ permits >= 0
          /\ permits = MAX_CONCURRENT_GEMINI_CALLS - Cardinality(Holders)

\* Every permit is held, one of them by a caller sleeping before its second
\* attempt, and another caller waits for a permit.
C29_Witness ==
    /\ permits = 0
    /\ Cardinality(Holders) = MAX_CONCURRENT_GEMINI_CALLS
    /\ \E c \in Callers : cpc[c] = "sleep" /\ attempt[c] = 1
    /\ \E c \in Callers : cpc[c] = "call" /\ attempt[c] = 2
    /\ \E c \in Callers : cpc[c] = "acquire"

\* The call for the current chunk has raised.
ChunkFailed == ret # NoValue /\ ret.fn = "raise"

\* What C30 says of the chunk loop: no more than MAX_CHUNKS * MAX_RETRIES
\* outbound calls in all, the next chunk taken only when no call is in
\* flight, and nothing more classified once the call for a chunk has raised.
ChunksOneByOne ==
    /\ call'.calls <= MAX_CHUNKS * MAX_RETRIES
    /\ loop'.i # loop.i => call.pc = "idle" /\ loop'.i = loop.i + 1
    /\ ChunkFailed => loop' = loop /\ call'.calls = call.calls

=============================================================================
